---------------------------- MODULE Spec2Model ----------------------------
(***************************************************************************)
(* key.js: a JSON key-value store served over HTTP (src/key.js) on top of  *)
(* a pluggable backing store: the in-memory one (src/stores/memory.js) or  *)
(* the relational one (src/stores/postgres.js, src/stores/pg_init.sql).    *)
(*                                                                         *)
(* Strings that the code takes apart (keys, request bodies) are sequences  *)
(* of one-character strings, so that prefixing, slicing and the first      *)
(* character test are computed as the code computes them.                  *)
(***************************************************************************)
EXTENDS Naturals, Sequences, FiniteSets, Bags, TLC

VARIABLES
    services,    \* the kvs(config) middleware instances created so far
    closures,    \* closures[i]: `var store` of the i-th call of the memory factory,
                 \* for the calls whose closure is still referenced
    globalThis,  \* the object `this` is bound to in the memory factory
    last,        \* the most recent event: a kvs() call, or a request, its response
                 \* and the store object its service worked on as it was before
    KVS,         \* the rows of table KVS: key |-> text of the JSON column
    reqs,        \* the requests served through the relational store, in flight
                 \* or answered: a bag of records
    process      \* "running", or "crashed" after an uncaught exception

memvars == <<services, closures, globalThis, last>>
pgvars == <<KVS, reqs, process>>
vars == <<services, closures, globalThis, last, KVS, reqs, process>>

(* How many times kvs(config) is called in one process. *)
MaxServices == 2

-----------------------------------------------------------------------------
(* JSON values as JavaScript sees them after JSON.parse.                   *)

undefined == [t |-> "undefined"]
JNull == [t |-> "null"]
JBool(x) == [t |-> "boolean", b |-> x]
JNum(x) == [t |-> "number", n |-> x]
JStr(x) == [t |-> "string", s |-> x]
JArr(x) == [t |-> "array", elems |-> x]
JObj(x) == [t |-> "object", props |-> x]

EmptyProps == [p \in {} |-> undefined]

(* ToBoolean of the language: the falsy values are undefined, null, false, *)
(* 0 and the empty string.                                                 *)
Truthy(v) ==
    CASE v.t = "undefined" -> FALSE
      [] v.t = "null" -> FALSE
      [] v.t = "boolean" -> v.b
      [] v.t = "number" -> v.n # 0
      [] v.t = "string" -> v.s # ""
      [] OTHER -> TRUE

(* obj.name for a parsed body: an own property of an object, else undefined. *)
Member(v, name) ==
    IF v.t = "object" /\ name \in DOMAIN v.props THEN v.props[name] ELSE undefined

-----------------------------------------------------------------------------
(* Request bodies on the wire, character by character.                     *)

TxtEmpty == <<>>
TxtNull == <<"n", "u", "l", "l">>
TxtNumber == <<"5">>
TxtString == <<"\"", "x", "\"">>
TxtTrue == <<"t", "r", "u", "e">>
TxtObj == <<"{", "}">>
TxtArr == <<"[", "1", "]">>
TxtBad == <<"{", "b">>
TxtNuke == <<"{", "\"", "n", "u", "k", "e", "\"", ":", "t", "r", "u", "e", "}">>
TxtNukeFalse == <<"{", "\"", "n", "u", "k", "e", "\"", ":", "f", "a", "l", "s", "e", "}">>
TxtNukeOne == <<"{", "\"", "n", "u", "k", "e", "\"", ":", "1", "}">>
TxtNukeNo == <<"{", "\"", "n", "u", "k", "e", "\"", ":", "\"", "n", "o", "\"", "}">>
TxtNukeArr == <<"{", "\"", "n", "u", "k", "e", "\"", ":", "[", "]", "}">>
TxtNukeExtra ==
    <<"{", "\"", "n", "u", "k", "e", "\"", ":", "t", "r", "u", "e", ",",
      "\"", "e", "x", "t", "r", "a", "\"", ":", "1", "}">>

(* The texts of the JSON column: a value inside its {"value": ...} wrapper. *)
TxtWrappedObj == <<"{", "\"", "v", "a", "l", "u", "e", "\"", ":", "{", "}", "}">>
TxtWrappedArr == <<"{", "\"", "v", "a", "l", "u", "e", "\"", ":", "[", "1", "]", "}">>

SyntaxError == [t |-> "SyntaxError"]

(* JSON.parse on the texts above; any other text is not JSON. *)
JSONparse(text) ==
    CASE text = TxtNull -> JNull
      [] text = TxtNumber -> JNum(5)
      [] text = TxtString -> JStr("x")
      [] text = TxtTrue -> JBool(TRUE)
      [] text = TxtObj -> JObj(EmptyProps)
      [] text = TxtArr -> JArr(<<JNum(1)>>)
      [] text = TxtNuke -> JObj([nuke |-> JBool(TRUE)])
      [] text = TxtNukeFalse -> JObj([nuke |-> JBool(FALSE)])
      [] text = TxtNukeOne -> JObj([nuke |-> JNum(1)])
      [] text = TxtNukeNo -> JObj([nuke |-> JStr("no")])
      [] text = TxtNukeArr -> JObj([nuke |-> JArr(<<>>)])
      [] text = TxtNukeExtra -> JObj([nuke |-> JBool(TRUE), extra |-> JNum(1)])
      [] text = TxtWrappedObj -> JObj([value |-> JObj(EmptyProps)])
      [] text = TxtWrappedArr -> JObj([value |-> JArr(<<JNum(1)>>)])
      [] OTHER -> SyntaxError

(* The characters of the property names and strings that occur. *)
Chars(str) ==
    CASE str = "value" -> <<"v", "a", "l", "u", "e">>
      [] str = "nuke" -> <<"n", "u", "k", "e">>
      [] str = "extra" -> <<"e", "x", "t", "r", "a">>
      [] str = "no" -> <<"n", "o">>
      [] str = "x" -> <<"x">>

Digits == <<"0", "1", "2", "3", "4", "5", "6", "7", "8", "9">>

(* The order in which the properties that occur were inserted. *)
PropOrder == <<"nuke", "extra", "value">>

(* JSON.stringify, for values JSON.parse gave (numbers below ten). *)
RECURSIVE JSONstringify(_)
RECURSIVE stringifyElems(_)
RECURSIVE stringifyProps(_, _)

stringifyElems(elems) ==
    IF elems = <<>> THEN <<>>
    ELSE JSONstringify(Head(elems))
            \o (IF Len(elems) > 1 THEN <<",">> \o stringifyElems(Tail(elems)) ELSE <<>>)

stringifyProps(names, props) ==
    IF names = <<>> THEN <<>>
    ELSE <<"\"">> \o Chars(Head(names)) \o <<"\"", ":">> \o JSONstringify(props[Head(names)])
            \o (IF Len(names) > 1 THEN <<",">> \o stringifyProps(Tail(names), props)
                 ELSE <<>>)

JSONstringify(v) ==
    CASE v.t = "null" -> TxtNull
      [] v.t = "boolean" -> IF v.b THEN TxtTrue ELSE <<"f", "a", "l", "s", "e">>
      [] v.t = "number" -> <<Digits[v.n + 1]>>
      [] v.t = "string" -> <<"\"">> \o Chars(v.s) \o <<"\"">>
      [] v.t = "array" -> <<"[">> \o stringifyElems(v.elems) \o <<"]">>
      [] v.t = "object" ->
            <<"{">> \o stringifyProps(SelectSeq(PropOrder, LAMBDA n : n \in DOMAIN v.props),
                                      v.props) \o <<"}">>

-----------------------------------------------------------------------------
(* Requests.  A request names one of the five routes, the key of its path  *)
(* (empty for /v1/all and /v1/nuke), its Content-Type, whether it announces*)
(* a body and the body's text.  "chunked" is a body announced by           *)
(* Transfer-Encoding: chunked; a body that is not empty and is announced   *)
(* by its Content-Length is treated the same way.                          *)

(* CREATE TABLE KVS (key VARCHAR(1024) PRIMARY KEY, ...): the longest key  *)
(* whose behaviour the README defines.                                     *)
MaxKeyLength == 1024

(* A key one character longer than that. *)
LongKey == [i \in 1..(MaxKeyLength + 1) |-> "x"]

Keys == {<<"a">>, <<"b">>}
EmptyKey == <<>>
Routes == {"GET /v1/all", "POST /v1/nuke", "GET /v1/key", "PUT /v1/key", "DELETE /v1/key"}
PutTexts == {TxtEmpty, TxtNull, TxtNumber, TxtString, TxtTrue, TxtObj, TxtArr, TxtBad}
NukeTexts ==
    {TxtEmpty, TxtObj, TxtArr, TxtNuke, TxtNukeFalse, TxtNukeOne, TxtNukeNo, TxtNukeArr,
     TxtNukeExtra}

Request(route, key, ctype, framing, text) ==
    [route |-> route, key |-> key, ctype |-> ctype, framing |-> framing, text |-> text]

(* A request without a body (no Content-Length, no Transfer-Encoding). *)
Bare(route, key) == Request(route, key, "application/json", "none", TxtEmpty)

(* A request with a chunked JSON body. *)
Json(route, key, text) == Request(route, key, "application/json", "chunked", text)

(* A request with a chunked body of another type. *)
Plain(route, key, text) == Request(route, key, "text/plain", "chunked", text)

Requests ==
    {Bare("GET /v1/all", EmptyKey), Bare("POST /v1/nuke", EmptyKey),
     Plain("POST /v1/nuke", EmptyKey, TxtNuke)}
        \cup {Json("POST /v1/nuke", EmptyKey, x) : x \in NukeTexts}
        \cup {Bare(r, k) : r \in {"GET /v1/key", "PUT /v1/key", "DELETE /v1/key"},
                           k \in Keys \cup {EmptyKey}}
        \cup {Json("PUT /v1/key", k, x) : k \in Keys, x \in PutTexts}
        \cup {Json("PUT /v1/key", EmptyKey, x) : x \in {TxtObj, TxtBad}}
        \cup {Plain("PUT /v1/key", k, TxtArr) : k \in Keys}

(* The requests on the over-length key. *)
LongRequests ==
    {Bare("GET /v1/key", LongKey), Bare("DELETE /v1/key", LongKey),
     Json("PUT /v1/key", LongKey, TxtObj), Json("PUT /v1/key", LongKey, TxtArr)}

-----------------------------------------------------------------------------
(* router.use(require('body-parser').json()) and req.is('json').           *)

(* type-is: a request has a body when it announces one. *)
hasbody(req) == req.framing # "none"

(* req.is('json'): null without a body, false for another type. *)
is(req) ==
    IF ~hasbody(req) THEN "null"
    ELSE IF req.ctype = "application/json" THEN "json" ELSE "false"

firstchar(text) == text[1]

(* Mutant: the json body parser with strict mode off. *)
json_lenient(req) ==
    IF ~hasbody(req) \/ is(req) # "json"
    THEN [err |-> FALSE, body |-> JObj(EmptyProps)]
    ELSE IF Len(req.text) = 0
    THEN [err |-> FALSE, body |-> JObj(EmptyProps)]
    ELSE IF JSONparse(req.text) = SyntaxError
    THEN [err |-> TRUE, body |-> undefined]
    ELSE [err |-> FALSE, body |-> JSONparse(req.text)]

(* The json body parser in its default strict mode.  req.body starts as {} *)
(* and stays {} when the request has no body or is not JSON; an empty JSON *)
(* body parses to {}; a text that does not open an object or an array, or  *)
(* that JSON.parse refuses, is an error answered 400 before any route.     *)
json(req) ==
    IF ~hasbody(req) \/ is(req) # "json"
    THEN [err |-> FALSE, body |-> JObj(EmptyProps)]
    ELSE IF Len(req.text) = 0
    THEN [err |-> FALSE, body |-> JObj(EmptyProps)]
    ELSE IF firstchar(req.text) \notin {"{", "["}
    THEN [err |-> TRUE, body |-> undefined]
    ELSE IF JSONparse(req.text) = SyntaxError
    THEN [err |-> TRUE, body |-> undefined]
    ELSE [err |-> FALSE, body |-> JSONparse(req.text)]

(* Mutant: a route pattern that also matches an empty last segment. *)
matches_any(req) == TRUE

(* '/v1/key/:id' matches a path whose last segment is not empty. *)
matches(req) == req.route \in {"GET /v1/all", "POST /v1/nuke"} \/ Len(req.key) > 0

-----------------------------------------------------------------------------
(* src/stores/memory.js.  A JavaScript object is a function from property  *)
(* names to values; a name that is not an own property is looked up in     *)
(* Object.prototype.                                                       *)

EmptyObject == [p \in {} |-> undefined]

ObjectPrototype ==
    {<<"c", "o", "n", "s", "t", "r", "u", "c", "t", "o", "r">>,
     <<"_", "_", "p", "r", "o", "t", "o", "_", "_">>,
     <<"t", "o", "S", "t", "r", "i", "n", "g">>}

builtin == [t |-> "builtin"]

(* obj[p] *)
Lookup(obj, p) ==
    IF p \in DOMAIN obj THEN obj[p]
    ELSE IF p \in ObjectPrototype THEN builtin ELSE undefined

(* p in obj *)
In(p, obj) == p \in DOMAIN obj \/ p \in ObjectPrototype

(* The accessor property Object.prototype.__proto__. *)
Proto == <<"_", "_", "p", "r", "o", "t", "o", "_", "_">>

(* obj[p] = v on an ordinary object.  obj.__proto__ = v runs the setter     *)
(* inherited from Object.prototype, which makes an object or array v the   *)
(* prototype of obj and ignores any other v: in both cases obj gets no own *)
(* property.                                                               *)
Assign(obj, p, v) ==
    IF p = Proto THEN obj
    ELSE [q \in DOMAIN obj \cup {p} |-> IF q = p THEN v ELSE obj[q]]

(* delete obj[p] *)
Remove(obj, p) == [q \in DOMAIN obj \ {p} |-> obj[q]]

KEY_PREFIX == <<"k", "e", "y", "_">>

prepKey(key) == KEY_PREFIX \o key

(* prop.slice(KEY_PREFIX.length) *)
slice(prop) == SubSeq(prop, Len(KEY_PREFIX) + 1, Len(prop))

Resolved(store, value) == [store |-> store, settled |-> "resolved", value |-> value]

(* Mutant: `var store = {}` inside nuke, which empties a local variable. *)
nuke_shadowed(store) == Resolved(store, undefined)

nuke(store) == Resolved(EmptyObject, undefined)

(* Object.keys(store).forEach(function(prop) {                             *)
(*     all[prop.slice(KEY_PREFIX.length)] = store[prop]; })                *)
RECURSIVE forEach(_, _, _)
forEach(props, store, all) ==
    IF props = {} THEN all
    ELSE LET prop == CHOOSE p \in props : TRUE
         IN  forEach(props \ {prop}, store, Assign(all, slice(prop), store[prop]))

(* The own properties of `all`, which is what res.send(all) writes. *)
getAll(store) == Resolved(store, forEach(DOMAIN store, store, EmptyObject))

(* Mutant: get without prepKey. *)
get_unprepped(store, key) == Resolved(store, Lookup(store, key))

get(store, key) == Resolved(store, Lookup(store, prepKey(key)))

(* Mutant: an upsert that only inserts, keeping the value of a held key. *)
upsert_insertOnly(store, key, value) ==
    IF In(prepKey(key), store)
    THEN Resolved(store, JNum(1))
    ELSE Resolved(Assign(store, prepKey(key), value), JNum(1))

upsert(store, key, value) == Resolved(Assign(store, prepKey(key), value), JNum(1))

(* Mutant: delete reports the key removed without removing it. *)
delete_keeps(store, key) ==
    IF In(prepKey(key), store) THEN Resolved(store, JNum(1)) ELSE Resolved(store, JNum(0))

delete(store, key) ==
    IF In(prepKey(key), store)
    THEN Resolved(Remove(store, prepKey(key)), JNum(1))
    ELSE Resolved(store, JNum(0))

(* module.exports = function(config) {...} of memory.js, called as a plain *)
(* function by key.js: `this` is the global object, so the five methods    *)
(* are assigned on the global object, bound to the closure of this call    *)
(* (the n-th), and the global object is what the call returns.             *)
memory(this, n) ==
    [this |-> [this EXCEPT !.nuke = n, !.getAll = n, !.get = n, !.upsert = n,
                           !.delete = n],
     store |-> EmptyObject,
     returns |-> "globalThis"]

Methods == {"nuke", "getAll", "get", "upsert", "delete"}

(* The closures still referenced once the methods are those of `this`: the *)
(* closure of an earlier call is garbage when its five functions have been *)
(* overwritten.                                                            *)
Reachable(cs, this) == [i \in DOMAIN cs \cap {this[m] : m \in Methods} |-> cs[i]]

(* The closure a method called on a service's `store` object runs in. *)
Bound(svc, method) ==
    IF svc.store = "globalThis" THEN globalThis[method] ELSE svc.store

-----------------------------------------------------------------------------
(* src/key.js: the five route handlers.  Each takes the store the method   *)
(* it calls is bound to and gives the response and the store afterwards;   *)
(* `calls` lists the store operations the handler invoked.                 *)

Call(op, key, value) == [op |-> op, key |-> key, value |-> value]
Text == [t |-> "text"]
Response(status, body, calls, store) ==
    [status |-> status, body |-> body, calls |-> calls, store |-> store]

(* next(err): express' default error handler *)
next(r, calls) == Response(500, Text, calls, r.store)

(* The callbacks each handler passes to .then of the promise r the store  *)
(* returned.  /v1/all passes no onRejected: a rejection is left unhandled  *)
(* and the request gets no response (status 0).                            *)
getAllThen(r, calls) ==
    IF r.settled = "resolved"
    THEN Response(200, [t |-> "object", map |-> r.value], calls, r.store)
    ELSE Response(0, Text, calls, r.store)

(* Mutant: a rejected nuke answered 400. *)
nukeThen_badRequest(r, calls) ==
    IF r.settled = "resolved" THEN Response(200, Text, calls, r.store)
    ELSE Response(400, Text, calls, r.store)

nukeThen(r, calls) ==
    IF r.settled = "resolved" THEN Response(200, Text, calls, r.store) ELSE next(r, calls)

getThen(r, calls) ==
    IF r.settled = "resolved"
    THEN IF r.value # undefined
         THEN Response(200, r.value, calls, r.store)
         ELSE Response(404, Text, calls, r.store)
    ELSE next(r, calls)

putThen(r, calls) ==
    IF r.settled = "resolved" THEN Response(201, Text, calls, r.store) ELSE next(r, calls)

deleteThen(r, calls) ==
    IF r.settled = "resolved"
    THEN IF Truthy(r.value)
         THEN Response(200, Text, calls, r.store)
         ELSE Response(404, Text, calls, r.store)
    ELSE next(r, calls)

getAllRoute(store) == getAllThen(getAll(store), <<Call("getAll", <<>>, undefined)>>)

(* Mutant: the nuke route without the allowNuke gate. *)
nukeRoute_ungated(config, store, body) ==
    IF Truthy(body) /\ Truthy(Member(body, "nuke"))
    THEN Response(200, Text, <<Call("nuke", <<>>, undefined)>>, nuke(store).store)
    ELSE Response(400, Text, <<>>, store)

nukeRoute(config, store, body) ==
    IF config.allowNuke /\ Truthy(body) /\ Truthy(Member(body, "nuke"))
    THEN nukeThen(nuke(store), <<Call("nuke", <<>>, undefined)>>)
    ELSE Response(400, Text, <<>>, store)

getRoute(store, key) == getThen(get(store, key), <<Call("get", key, undefined)>>)

(* Mutant: the put route without the req.is('json') check. *)
putRoute_unchecked(store, req, body) ==
    Response(201, Text, <<Call("upsert", req.key, body)>>,
             upsert(store, req.key, body).store)

(* Mutant: a put route that refuses keys longer than MaxKeyLength. *)
putRoute_limited(store, req, body) ==
    IF is(req) # "json" \/ Len(req.key) > MaxKeyLength
    THEN Response(400, Text, <<>>, store)
    ELSE Response(201, Text, <<Call("upsert", req.key, body)>>,
                  upsert(store, req.key, body).store)

putRoute(store, req, body) ==
    IF is(req) # "json"
    THEN Response(400, Text, <<>>, store)
    ELSE putThen(upsert(store, req.key, body), <<Call("upsert", req.key, body)>>)

(* Mutant: the delete route answers 200 whatever the count. *)
deleteRoute_always200(store, key) ==
    Response(200, Text, <<Call("delete", key, undefined)>>, delete(store, key).store)

deleteRoute(store, key) == deleteThen(delete(store, key), <<Call("delete", key, undefined)>>)

-----------------------------------------------------------------------------
(* The state machine.                                                      *)

(* The requests the body parser refuses, those no route matches, and those *)
(* that reach the handler of each route.                                   *)
Refused == {req \in Requests : json(req).err}
Unrouted == {req \in Requests : ~json(req).err /\ ~matches(req)}
Routed == [r \in Routes |->
              {req \in Requests : ~json(req).err /\ matches(req) /\ req.route = r}]

NoRequest == Request("none", <<>>, "text/plain", "none", TxtEmpty)

Event(kind, s, req, status, body, calls, before) ==
    [kind |-> kind, svc |-> s, req |-> req, status |-> status, body |-> body,
     calls |-> calls, before |-> before]

(* The store object the methods called through service s work on, and what *)
(* it holds for a key (undefined when it holds nothing).                   *)
StoreOf(s) == closures[Bound(services[s], "get")]
HeldIn(store, k) == IF prepKey(k) \in DOMAIN store THEN store[prepKey(k)] ELSE undefined
Held(s, k) == HeldIn(StoreOf(s), k)

NoMethods == [nuke |-> 0, getAll |-> 0, get |-> 0, upsert |-> 0, delete |-> 0]

(* kvs(config): key.js lines 12-17, the n-th call in this process. *)
kvs(allowNuke, n) ==
    LET m == memory(globalThis, n)
    IN  /\ services' = Append(services,
                          [config |-> [allowNuke |-> allowNuke], store |-> m.returns])
        /\ closures' = Reachable([i \in DOMAIN closures \cup {n} |->
                                      IF i = n THEN m.store ELSE closures[i]], m.this)
        /\ globalThis' = m.this
        /\ last' = Event("kvs", n, NoRequest, 0, Text, <<>>, EmptyObject)
        /\ UNCHANGED pgvars

(* app.js: the server mounts one kvs(config) instance. *)
Init ==
    \E allowNuke \in BOOLEAN :
        LET m == memory(NoMethods, 1)
        IN  /\ services = <<[config |-> [allowNuke |-> allowNuke], store |-> m.returns]>>
            /\ closures = [i \in {1} |-> m.store]
            /\ globalThis = m.this
            /\ last = Event("kvs", 1, NoRequest, 0, Text, <<>>, EmptyObject)
            /\ KVS = EmptyObject
            /\ reqs = EmptyBag
            /\ process = "running"

(* A further kvs(config) call, as the test suites make. *)
NewService ==
    /\ Len(services) < MaxServices
    /\ \E allowNuke \in BOOLEAN : kvs(allowNuke, Len(services) + 1)

(* The handler's response is sent and its store's closure updated. *)
Answer(s, req, method, resp) ==
    /\ closures' = [closures EXCEPT ![Bound(services[s], method)] = resp.store]
    /\ last' = Event("request", s, req, resp.status, resp.body, resp.calls, StoreOf(s))
    /\ UNCHANGED <<services, globalThis>>
    /\ UNCHANGED pgvars

(* The body parser refuses the body: 400, no route runs. *)
BodyParserError ==
    \E s \in 1..Len(services), req \in Refused :
        /\ last' = Event("request", s, req, 400, Text, <<>>, StoreOf(s))
        /\ UNCHANGED <<services, closures, globalThis>>
        /\ UNCHANGED pgvars

(* No route matches the path: 404 from the framework. *)
NoRoute ==
    \E s \in 1..Len(services), req \in Unrouted :
        /\ last' = Event("request", s, req, 404, Text, <<>>, StoreOf(s))
        /\ UNCHANGED <<services, closures, globalThis>>
        /\ UNCHANGED pgvars

GetAll ==
    \E s \in 1..Len(services), req \in Routed["GET /v1/all"] :
        Answer(s, req, "getAll",
                  getAllRoute(closures[Bound(services[s], "getAll")]))

Nuke ==
    \E s \in 1..Len(services), req \in Routed["POST /v1/nuke"] :
        Answer(s, req, "nuke",
                  nukeRoute(services[s].config, closures[Bound(services[s], "nuke")],
                            json(req).body))

Get ==
    \E s \in 1..Len(services), req \in Routed["GET /v1/key"] :
        Answer(s, req, "get",
                  getRoute(closures[Bound(services[s], "get")], req.key))

Put ==
    \E s \in 1..Len(services), req \in Routed["PUT /v1/key"] :
        Answer(s, req, "upsert",
                  putRoute(closures[Bound(services[s], "upsert")], req, json(req).body))

Delete ==
    \E s \in 1..Len(services), req \in Routed["DELETE /v1/key"] :
        Answer(s, req, "delete",
                  deleteRoute(closures[Bound(services[s], "delete")], req.key))

Next ==
    \/ NewService
    \/ BodyParserError
    \/ NoRoute
    \/ GetAll
    \/ Nuke
    \/ Get
    \/ Put
    \/ Delete

Spec == Init /\ [][Next]_vars

-----------------------------------------------------------------------------
(* The server of app.js, which mounts a single kvs(config) instance, with  *)
(* requests on the over-length key besides the others.  The path segment   *)
(* of such a request is not empty, so it reaches the handler of its route. *)

RoutedLong == [r \in Routes |->
                  {req \in LongRequests : ~json(req).err /\ matches(req) /\ req.route = r}]

GetLong ==
    \E s \in 1..Len(services), req \in RoutedLong["GET /v1/key"] :
        Answer(s, req, "get",
                  getRoute(closures[Bound(services[s], "get")], req.key))

PutLong ==
    \E s \in 1..Len(services), req \in RoutedLong["PUT /v1/key"] :
        Answer(s, req, "upsert",
                  putRoute(closures[Bound(services[s], "upsert")], req, json(req).body))

DeleteLong ==
    \E s \in 1..Len(services), req \in RoutedLong["DELETE /v1/key"] :
        Answer(s, req, "delete",
                  deleteRoute(closures[Bound(services[s], "delete")], req.key))

NextApp ==
    \/ BodyParserError
    \/ NoRoute
    \/ GetAll
    \/ Nuke
    \/ Get
    \/ Put
    \/ Delete
    \/ GetLong
    \/ PutLong
    \/ DeleteLong

SpecApp == Init /\ [][NextApp]_vars

(* The server as app.js runs it, with requests for keys named like         *)
(* properties of Object.prototype or like the store's own prefixed         *)
(* property names.                                                         *)
NamedKeys ==
    {Proto,
     <<"c", "o", "n", "s", "t", "r", "u", "c", "t", "o", "r">>,
     <<"k", "e", "y", "_", "a">>}

NamedRequests ==
    {Bare(r, k) : r \in {"GET /v1/key", "DELETE /v1/key"}, k \in NamedKeys}
        \cup {Json("PUT /v1/key", k, x) : k \in NamedKeys, x \in {TxtObj, TxtArr}}

RoutedNamed == [r \in Routes |->
                   {req \in NamedRequests : ~json(req).err /\ matches(req) /\ req.route = r}]

GetNamed ==
    \E s \in 1..Len(services), req \in RoutedNamed["GET /v1/key"] :
        Answer(s, req, "get",
                  getRoute(closures[Bound(services[s], "get")], req.key))

PutNamed ==
    \E s \in 1..Len(services), req \in RoutedNamed["PUT /v1/key"] :
        Answer(s, req, "upsert",
                  putRoute(closures[Bound(services[s], "upsert")], req, json(req).body))

DeleteNamed ==
    \E s \in 1..Len(services), req \in RoutedNamed["DELETE /v1/key"] :
        Answer(s, req, "delete",
                  deleteRoute(closures[Bound(services[s], "delete")], req.key))

NextNamed ==
    \/ BodyParserError
    \/ NoRoute
    \/ GetAll
    \/ Nuke
    \/ Get
    \/ Put
    \/ Delete
    \/ GetNamed
    \/ PutNamed
    \/ DeleteNamed

SpecNamed == Init /\ [][NextNamed]_vars

-----------------------------------------------------------------------------
(* src/stores/pg_init.sql: table KVS and what the statements the store     *)
(* sends do to it.  A table is a function from the keys of its rows to the *)
(* text of their JSON column.  Every statement is its own transaction; the *)
(* INSERT and the UPDATE inside the upsert function each see the rows      *)
(* committed when they run.                                                *)

EmptyTable == [k \in {} |-> TxtWrappedObj]

Result(err, rows, rowCount) == [err |-> err, rows |-> rows, rowCount |-> rowCount]
NoResult == Result(FALSE, {}, 0)

(* The statement failed: client.query's callback gets err and no result. *)
QueryError == Result(TRUE, {}, 0)

(* A row as the client hands it over: the json column goes through         *)
(* JSON.parse.  NoColumn stands for a column the statement did not select. *)
NoColumn == <<>>
Row(key, text) == [key |-> key, value |-> JSONparse(text)]

(* DELETE FROM KVS *)
DeleteAll(table) ==
    [table |-> EmptyTable, result |-> Result(FALSE, {}, Cardinality(DOMAIN table))]

(* SELECT * FROM KVS *)
SelectAll(table) ==
    [table |-> table,
     result |-> Result(FALSE, {Row(k, table[k]) : k \in DOMAIN table},
                       Cardinality(DOMAIN table))]

(* SELECT VALUE FROM KVS WHERE key = $1 *)
SelectValue(table, key) ==
    [table |-> table,
     result |-> IF key \in DOMAIN table
                THEN Result(FALSE, {Row(NoColumn, table[key])}, 1)
                ELSE Result(FALSE, {}, 0)]

(* Mutant: a DELETE that counts the row and leaves it. *)
DeleteWhere_keeps(table, key) ==
    IF key \in DOMAIN table
    THEN [table |-> table, result |-> Result(FALSE, {}, 1)]
    ELSE [table |-> table, result |-> Result(FALSE, {}, 0)]

(* DELETE FROM KVS WHERE key = $1 *)
DeleteWhere(table, key) ==
    IF key \in DOMAIN table
    THEN [table |-> [k \in DOMAIN table \ {key} |-> table[k]], result |-> Result(FALSE, {}, 1)]
    ELSE [table |-> table, result |-> Result(FALSE, {}, 0)]

(* Mutant: a key column without PRIMARY KEY. *)
InsertRaises_noPrimaryKey(table, key) == Len(key) > MaxKeyLength

(* Mutant: an INSERT that always raises. *)
InsertRaises_always(table, key) == TRUE

(* INSERT INTO KVS (key, value) VALUES ($1, $2): raises unique_violation   *)
(* for a key that has a row (PRIMARY KEY) and string_data_right_truncation *)
(* for a key that does not fit VARCHAR(1024).                              *)
InsertRaises(table, key) == key \in DOMAIN table \/ Len(key) > MaxKeyLength

(* Mutant: an INSERT that leaves the new row alone in the table. *)
Insert_alone(table, key, text) == [k \in {key} |-> text]

Insert(table, key, text) ==
    [k \in DOMAIN table \cup {key} |-> IF k = key THEN text ELSE table[k]]

(* Mutant: an UPDATE that removes the row. *)
Update_removes(table, key, text) == [k \in DOMAIN table \ {key} |-> table[k]]

(* UPDATE KVS SET value = $2 WHERE key = $1 *)
Update(table, key, text) ==
    [k \in DOMAIN table |-> IF k = key THEN text ELSE table[k]]

(* SELECT upsert($1, $2) run with no other statement in between: the       *)
(* INSERT, and the UPDATE when the INSERT raises.                          *)
upsertFunction(table, key, text) ==
    IF InsertRaises(table, key) THEN Update(table, key, text) ELSE Insert(table, key, text)

-----------------------------------------------------------------------------
(* src/stores/postgres.js: the parameters each method passes to query and  *)
(* the callback it chains on the promise query returns.                    *)

PgResult == [t |-> "result"]
PgError == [t |-> "error"]

(* Mutant: upsert sends the value without the wrapper. *)
upsertParam_bare(value) == JSONstringify(value)

(* [key, {"value": value}]: the client sends an object parameter as its    *)
(* JSON.stringify text.                                                    *)
upsertParam(value) == JSONstringify(JObj([value |-> value]))

(* all[row.key] = row.value.value for every row *)
pgGetAll(result) ==
    [k \in {row.key : row \in result.rows} |->
        Member((CHOOSE row \in result.rows : row.key = k).value, "value")]

(* undefined for no row, else rows[0].value.value *)
pgGet(result) ==
    IF Cardinality(result.rows) = 0 THEN undefined
    ELSE Member((CHOOSE row \in result.rows : TRUE).value, "value")

(* result.rowCount *)
pgDelete(result) == JNum(result.rowCount)

(* The promise a store method returns, once query's promise has settled    *)
(* with the result or the error of the statement.                          *)
Settled(settled, value) == [store |-> EmptyObject, settled |-> settled, value |-> value]

pgPromise(op, result) ==
    IF result.err THEN Settled("rejected", PgError)
    ELSE CASE op = "nuke" -> Settled("resolved", PgResult)
           [] op = "getAll" -> Settled("resolved", pgGetAll(result))
           [] op = "get" -> Settled("resolved", pgGet(result))
           [] op = "upsert" -> Settled("resolved", PgResult)
           [] op = "delete" -> Settled("resolved", pgDelete(result))

-----------------------------------------------------------------------------
(* The server with the relational store: src/key.js on top of              *)
(* src/stores/postgres.js.  A request is served in steps: the handler      *)
(* calls the store method, whose query asks the pool for a client          *)
(* ("connect"); pg.connect's callback sends the statement ("query"); the   *)
(* database runs it, the upsert function in up to two statements           *)
(* ("update" once its INSERT has raised); client.query's callback          *)
(* ("callback") releases the client and settles the promise, whose         *)
(* callbacks run and send the response, if there is one ("done").          *)

(* How many requests are served through the relational store. *)
MaxRequests == 2

PgKeys == Keys \cup {LongKey}

PgRequests ==
    {Bare("GET /v1/all", EmptyKey), Json("POST /v1/nuke", EmptyKey, TxtNuke),
     Json("PUT /v1/key", <<"a">>, TxtObj), Json("PUT /v1/key", <<"a">>, TxtArr),
     Json("PUT /v1/key", <<"b">>, TxtArr), Json("PUT /v1/key", LongKey, TxtObj)}
        \cup {Bare("GET /v1/key", k) : k \in PgKeys}
        \cup {Bare("DELETE /v1/key", k) : k \in Keys}

(* The tables the database may hold when the server starts. *)
InitialTables ==
    {EmptyTable,
     [k \in {<<"a">>} |-> TxtWrappedObj],
     [k \in Keys |-> TxtWrappedObj]}

(* The store method the handler of the request's route calls. *)
OpOf(req) ==
    CASE req.route = "GET /v1/all" -> "getAll"
      [] req.route = "POST /v1/nuke" -> "nuke"
      [] req.route = "GET /v1/key" -> "get"
      [] req.route = "PUT /v1/key" -> "upsert"
      [] req.route = "DELETE /v1/key" -> "delete"

(* The request passes the body parser, matches its route and passes the    *)
(* handler's own checks, so that the handler calls the store.              *)
Reaches(config, req) ==
    /\ ~json(req).err
    /\ matches(req)
    /\ req.route = "PUT /v1/key" => is(req) = "json"
    /\ req.route = "POST /v1/nuke"
          => (config.allowNuke /\ Truthy(json(req).body)
                 /\ Truthy(Member(json(req).body, "nuke")))

(* A request being served: where it is, whether it holds a pooled client,  *)
(* the statement's result once it ran, which statement of the upsert       *)
(* function wrote, whether another request was in flight while it was,     *)
(* whether a delete of its key or a nuke was (upserts only), and the       *)
(* response once sent (status 0 stands for no response); acts is what      *)
(* query's callbacks have done so far, in order.                           *)
Serving(req, pc, conn, result, path, overlapped, raced, status, body, acts) ==
    [req |-> req, pc |-> pc, conn |-> conn, result |-> result, path |-> path,
     overlapped |-> overlapped, raced |-> raced, status |-> status, body |-> body,
     acts |-> acts]

(* pg.connect's callback: reject(err) when there is an error, and in every *)
(* case client.query(sql, params, ...), as no return follows the reject.   *)
connectCallback(err) ==
    (IF err THEN <<"reject">> ELSE <<>>) \o <<"client.query">>

(* Mutant: the client is given back only when the statement succeeded. *)
queryCallback_leak(err) ==
    IF err THEN <<"reject", "resolve">> ELSE <<"done", "resolve">>

(* client.query's callback: done(), reject(err) when there is an error,    *)
(* and in every case resolve(result).                                      *)
queryCallback(err) ==
    <<"done">> \o (IF err THEN <<"reject">> ELSE <<>>) \o <<"resolve">>

(* The pooled client after the operations of a callback: done() gives it   *)
(* back.                                                                   *)
release(conn, ops) ==
    IF \E i \in 1..Len(ops) : ops[i] = "done" THEN "released" ELSE conn

InFlight(r) == r.pc \in {"connect", "query", "update", "callback"}

(* q is a delete of the key upsert u writes, or a nuke. *)
Races(q, u) ==
    /\ OpOf(u.req) = "upsert"
    /\ \/ OpOf(q.req) = "nuke"
       \/ OpOf(q.req) = "delete" /\ q.req.key = u.req.key

Swap(bag, r, r2) == (bag (-) SetToBag({r})) (+) SetToBag({r2})

(* The store call of the handler, the callbacks of the store method and    *)
(* the callbacks of the handler, for a request whose statement ended with  *)
(* `result`.                                                               *)
respond(req, result) ==
    LET op == OpOf(req)
        p == pgPromise(op, result)
    IN  CASE op = "getAll" -> getAllThen(p, <<Call("getAll", <<>>, undefined)>>)
          [] op = "nuke" -> nukeThen(p, <<Call("nuke", <<>>, undefined)>>)
          [] op = "get" -> getThen(p, <<Call("get", req.key, undefined)>>)
          [] op = "upsert" -> putThen(p, <<Call("upsert", req.key, json(req).body)>>)
          [] op = "delete" -> deleteThen(p, <<Call("delete", req.key, undefined)>>)

(* The server is started on a database, whose table is kept as the store  *)
(* the kvs() call found; the configuration allows nuke.                    *)
InitPg ==
    /\ services = <<[config |-> [allowNuke |-> TRUE], store |-> "globalThis"]>>
    /\ closures = EmptyObject
    /\ globalThis = [nuke |-> 1, getAll |-> 1, get |-> 1, upsert |-> 1, delete |-> 1]
    /\ KVS \in InitialTables
    /\ last = Event("kvs", 1, NoRequest, 0, Text, <<>>, KVS)
    /\ reqs = EmptyBag
    /\ process = "running"

(* A request arrives and its handler calls the store method: query asks    *)
(* the pool for a client.                                                  *)
PgArrive ==
    \E req \in PgRequests :
        /\ process = "running"
        /\ BagCardinality(reqs) < MaxRequests
        /\ Reaches(services[1].config, req)
        /\ LET new == Serving(req, "connect", "none", NoResult, "none", FALSE, FALSE, 0,
                              Text, <<>>)
               mark(r) == IF InFlight(r)
                          THEN [r EXCEPT !.overlapped = TRUE,
                                         !.raced = r.raced \/ Races(new, r)]
                          ELSE r
           IN  reqs' = BagOfAll(mark, reqs)
                          (+) SetToBag({[new EXCEPT
                                  !.overlapped = \E q \in BagToSet(reqs) : InFlight(q),
                                  !.raced = \E q \in BagToSet(reqs) :
                                                InFlight(q) /\ Races(q, new)]})
        /\ UNCHANGED <<KVS, process>>
        /\ UNCHANGED memvars

(* pg.connect's callback with a client: client.query sends the statement. *)
PgConnect ==
    \E r \in BagToSet(reqs) :
        /\ process = "running"
        /\ r.pc = "connect"
        /\ reqs' = Swap(reqs, r, [r EXCEPT !.pc = "query", !.conn = "held",
                                           !.acts = connectCallback(FALSE)])
        /\ UNCHANGED <<KVS, process>>
        /\ UNCHANGED memvars

(* pg.connect's callback with an error and no client: reject(err), and     *)
(* then client.query on the missing client throws a TypeError nothing      *)
(* catches, which ends the process.                                        *)
PgConnectError ==
    \E r \in BagToSet(reqs) :
        /\ process = "running"
        /\ r.pc = "connect"
        /\ reqs' = Swap(reqs, r, [r EXCEPT !.pc = "threw", !.result = QueryError,
                                           !.acts = connectCallback(TRUE)])
        /\ process' = "crashed"
        /\ UNCHANGED KVS
        /\ UNCHANGED memvars

(* The database runs the statement; for an upsert, the INSERT of the       *)
(* upsert function, which leaves the UPDATE to come when it raises.        *)
PgQuery ==
    \E r \in BagToSet(reqs) :
        /\ process = "running"
        /\ r.pc = "query"
        /\ LET op == OpOf(r.req)
               ran == CASE op = "nuke" -> DeleteAll(KVS)
                        [] op = "getAll" -> SelectAll(KVS)
                        [] op = "get" -> SelectValue(KVS, r.req.key)
                        [] op = "delete" -> DeleteWhere(KVS, r.req.key)
                        [] op = "upsert" ->
                              [table |-> Insert(KVS, r.req.key, upsertParam(json(r.req).body)),
                               result |-> Result(FALSE, {}, 1)]
           IN  IF op = "upsert" /\ InsertRaises(KVS, r.req.key)
               THEN /\ reqs' = Swap(reqs, r, [r EXCEPT !.pc = "update"])
                    /\ UNCHANGED KVS
               ELSE /\ reqs' = Swap(reqs, r,
                                    [r EXCEPT !.pc = "callback", !.result = ran.result,
                                              !.path = IF op = "upsert" THEN "insert"
                                                       ELSE "none"])
                    /\ KVS' = ran.table
        /\ UNCHANGED process
        /\ UNCHANGED memvars

(* EXCEPTION WHEN OTHERS THEN UPDATE ...: the upsert function's second     *)
(* statement, after which the function returns normally.                   *)
PgUpdate ==
    \E r \in BagToSet(reqs) :
        /\ process = "running"
        /\ r.pc = "update"
        /\ KVS' = Update(KVS, r.req.key, upsertParam(json(r.req).body))
        /\ reqs' = Swap(reqs, r, [r EXCEPT !.pc = "callback",
                                           !.result = Result(FALSE, {}, 1),
                                           !.path = "update"])
        /\ UNCHANGED process
        /\ UNCHANGED memvars

(* The statement fails in the database or on the connection: nothing is    *)
(* written and client.query's callback will get the error.                 *)
PgQueryError ==
    \E r \in BagToSet(reqs) :
        /\ process = "running"
        /\ r.pc \in {"query", "update"}
        /\ reqs' = Swap(reqs, r, [r EXCEPT !.pc = "callback", !.result = QueryError])
        /\ UNCHANGED <<KVS, process>>
        /\ UNCHANGED memvars

(* client.query's callback: done(), then reject(err) or resolve(result),   *)
(* and the callbacks chained on the promise run and send the response.     *)
PgCallback ==
    \E r \in BagToSet(reqs) :
        /\ process = "running"
        /\ r.pc = "callback"
        /\ LET resp == respond(r.req, r.result)
               ops == queryCallback(r.result.err)
           IN  reqs' = Swap(reqs, r, [r EXCEPT !.pc = "done",
                                               !.conn = release(r.conn, ops),
                                               !.status = resp.status,
                                               !.body = resp.body,
                                               !.acts = r.acts \o ops])
        /\ UNCHANGED <<KVS, process>>
        /\ UNCHANGED memvars

NextPg ==
    \/ PgArrive
    \/ PgConnect
    \/ PgConnectError
    \/ PgQuery
    \/ PgUpdate
    \/ PgQueryError
    \/ PgCallback

SpecPg == InitPg /\ [][NextPg]_vars

-----------------------------------------------------------------------------
(* What the claims are stated in.  The steps of a behaviour are told apart *)
(* by the event they record in last'; an upsert, delete or nuke counts     *)
(* whichever service instance it is issued through.                        *)

(* What get(k) and getAll() return when called through service s. *)
View(s, k) == get(closures[Bound(services[s], "get")], k).value
AllView(s) == getAll(closures[Bound(services[s], "getAll")]).value

(* The event is a request that reached the handler of `route`. *)
Handled(e, route) == e.kind = "request" /\ e.req \in Routed[route]

(* The event's handler invoked the store operation `op`. *)
Called(e, op) == e.kind = "request" /\ e.calls # <<>> /\ e.calls[1].op = op

(* The event is an upsert(k, .), a delete(k) or a nuke. *)
Ends(e, k) ==
    \/ Called(e, "nuke")
    \/ (Called(e, "upsert") \/ Called(e, "delete")) /\ e.calls[1].key = k

(* C1: once a PUT of k with value v is answered 201, get(k) through that   *)
(* service returns v, and a value that get(k) returns stays the value it   *)
(* returns over every step that is not an upsert(k, .), a delete(k) or a   *)
(* nuke; a GET of k in between is answered 200 with that value.            *)
C1_UpsertedValueIsReturned ==
    [][\A s \in 1..Len(services), k \in Keys :
          /\ (Called(last', "upsert") /\ last'.status = 201 /\ last'.svc = s
                  /\ last'.req.key = k)
                => View(s, k)' = last'.calls[1].value
          /\ (View(s, k) # undefined /\ ~Ends(last', k))
                => View(s, k)' = View(s, k)
          /\ (View(s, k) # undefined /\ Handled(last', "GET /v1/key")
                  /\ last'.svc = s /\ last'.req.key = k)
                => (last'.status = 200 /\ last'.body = View(s, k))]_vars

(* C2: a request through one service instance, and the creation of another *)
(* instance, leave what get and getAll return through a service unchanged. *)
C2_ServicesHaveOwnStores ==
    [][\A s \in 1..Len(services) :
          (last'.kind = "kvs" \/ last'.svc # s)
              => /\ AllView(s)' = AllView(s)
                 /\ \A k \in Keys : View(s, k)' = View(s, k)]_vars

(* C3: a DELETE of k answered 200 leaves k absent, an absent key stays     *)
(* absent over every step that is not an upsert(k, .), and a GET of an     *)
(* absent key is answered 404.                                             *)
C3_DeletedKeyStaysAbsent ==
    [][\A s \in 1..Len(services), k \in Keys :
          /\ (Handled(last', "DELETE /v1/key") /\ last'.status = 200 /\ last'.svc = s
                  /\ last'.req.key = k)
                => View(s, k)' = undefined
          /\ (View(s, k) = undefined
                  /\ ~(Called(last', "upsert") /\ last'.calls[1].key = k))
                => View(s, k)' = undefined
          /\ (View(s, k) = undefined /\ Handled(last', "GET /v1/key")
                  /\ last'.svc = s /\ last'.req.key = k)
                => last'.status = 404]_vars

(* C3 witness: a DELETE of a key that was held was answered 200 and the    *)
(* key now reads as absent.                                                *)
C3_Witness ==
    /\ Handled(last, "DELETE /v1/key")
    /\ last.status = 200
    /\ HeldIn(last.before, last.req.key) # undefined
    /\ View(last.svc, last.req.key) = undefined

(* C4: delete(k) resolves with 1 exactly when k was held, and k is then    *)
(* no longer held; it resolves with 0 exactly when k was not held, and the *)
(* store is then unchanged; the DELETE is answered 200 for 1, 404 for 0.   *)
C4_DeleteCount ==
    [][\A s \in 1..Len(services), k \in Keys :
          (Handled(last', "DELETE /v1/key") /\ last'.svc = s /\ last'.req.key = k)
              => LET r == delete(StoreOf(s), k)
                 IN  /\ Called(last', "delete")
                     /\ r.settled = "resolved"
                     /\ r.value \in {JNum(0), JNum(1)}
                     /\ Held(s, k) # undefined
                          => /\ r.value = JNum(1)
                             /\ last'.status = 200
                             /\ Held(s, k)' = undefined
                             /\ \A j \in Keys \ {k} : Held(s, j)' = Held(s, j)
                     /\ Held(s, k) = undefined
                          => /\ r.value = JNum(0)
                             /\ last'.status = 404
                             /\ closures' = closures]_vars

(* C4 witness: a DELETE of a key that was not held was answered 404. *)
C4_Witness ==
    /\ Handled(last, "DELETE /v1/key")
    /\ Called(last, "delete")
    /\ HeldIn(last.before, last.req.key) = undefined
    /\ last.status = 404
    /\ \E k \in Keys : Held(last.svc, k) # undefined

(* C5: get(k) on a key that is not held resolves with undefined and the    *)
(* GET is answered 404; the GET is answered 200 with the held value        *)
(* exactly when the key is held.                                           *)
C5_GetAbsent ==
    [][\A s \in 1..Len(services), k \in Keys :
          (Handled(last', "GET /v1/key") /\ last'.svc = s /\ last'.req.key = k)
              => LET r == get(StoreOf(s), k)
                 IN  /\ Called(last', "get")
                     /\ r.settled = "resolved"
                     /\ Held(s, k) = undefined
                          => (r.value = undefined /\ last'.status = 404)
                     /\ Held(s, k) # undefined
                          => (last'.status = 200 /\ last'.body = Held(s, k))
                     /\ last'.status \in {200, 404}]_vars

(* C5 witness: a GET of a key that is not held was answered 404 while the  *)
(* store holds another key.                                                *)
C5_Witness ==
    /\ Handled(last, "GET /v1/key")
    /\ last.status = 404
    /\ Held(last.svc, last.req.key) = undefined
    /\ \E k \in Keys : Held(last.svc, k) # undefined

(* C6: a PUT that reaches the store is answered 201 and leaves the key    *)
(* holding the value sent, whether the key was new or already held another *)
(* value, and a GET of the key right after it is answered 200 with that    *)
(* value.                                                                  *)
C6_LastUpsertWins ==
    [][\A s \in 1..Len(services), k \in Keys :
          /\ (Handled(last', "PUT /v1/key") /\ Called(last', "upsert") /\ last'.svc = s
                  /\ last'.req.key = k)
                => /\ last'.status = 201
                   /\ Len(last'.req.text) > 0
                        => last'.calls[1].value = JSONparse(last'.req.text)
                   /\ Held(s, k)' = last'.calls[1].value
                   /\ \A j \in Keys \ {k} : Held(s, j)' = Held(s, j)
          /\ (Called(last, "upsert") /\ last.svc = s /\ last.req.key = k
                  /\ Handled(last', "GET /v1/key") /\ last'.svc = s /\ last'.req.key = k)
                => (last'.status = 200 /\ last'.body = last.calls[1].value)]_vars

(* C6 witness: a PUT answered 201 stored its value over a different value  *)
(* held for the same key.                                                  *)
C6_Witness ==
    /\ Handled(last, "PUT /v1/key")
    /\ last.status = 201
    /\ HeldIn(last.before, last.req.key) # undefined
    /\ HeldIn(last.before, last.req.key) # last.calls[1].value
    /\ Held(last.svc, last.req.key) = last.calls[1].value

(* C7: a nuke answered 200 leaves getAll returning the empty mapping and   *)
(* every key absent, whatever was held before; GET /v1/all is answered 200 *)
(* with what getAll returns; an empty store stays empty over every step    *)
(* that is not an upsert.                                                  *)
C7_NukeEmpties ==
    [][\A s \in 1..Len(services) :
          /\ (Handled(last', "POST /v1/nuke") /\ last'.status = 200 /\ last'.svc = s)
                => /\ AllView(s)' = EmptyObject
                   /\ \A k \in Keys : View(s, k)' = undefined
          /\ (Handled(last', "GET /v1/all") /\ last'.svc = s)
                => /\ last'.status = 200
                   /\ last'.body = [t |-> "object", map |-> AllView(s)]
                   /\ DOMAIN AllView(s) = {k \in Keys : Held(s, k) # undefined}
          /\ (AllView(s) = EmptyObject /\ ~Called(last', "upsert"))
                => AllView(s)' = EmptyObject]_vars

(* C7 witness: a nuke of a store that held both keys was answered 200 and  *)
(* the store is empty.                                                     *)
C7_Witness ==
    /\ Handled(last, "POST /v1/nuke")
    /\ last.status = 200
    /\ \A k \in Keys : HeldIn(last.before, k) # undefined
    /\ AllView(last.svc) = EmptyObject

(* The body's text has no `nuke` member at all. *)
Unmarked(text) == Member(JSONparse(text), "nuke") = undefined

(* C8: a POST /v1/nuke through a service whose allowNuke is not set, or    *)
(* whose body has no `nuke` member, is answered 400, invokes no store      *)
(* operation and leaves every store unchanged.                             *)
C8_NukeGates ==
    [][\A s \in 1..Len(services) :
          (Handled(last', "POST /v1/nuke") /\ last'.svc = s
               /\ (~services[s].config.allowNuke \/ Unmarked(last'.req.text)))
              => /\ last'.status = 400
                 /\ last'.calls = <<>>
                 /\ closures' = closures]_vars

(* C8 witness: nuke refused for a service without allowNuke although the   *)
(* body is the confirmation object, with something held.                   *)
C8_Witness ==
    /\ Handled(last, "POST /v1/nuke")
    /\ last.req = Json("POST /v1/nuke", EmptyKey, TxtNuke)
    /\ ~services[last.svc].config.allowNuke
    /\ last.status = 400
    /\ \E k \in Keys : Held(last.svc, k) # undefined

(* C9: with allowNuke set, POST /v1/nuke empties the store only for the    *)
(* body {"nuke": true}; with any other body it is answered 400 and the     *)
(* store is unchanged.                                                     *)
C9_NukeExactConfirmation ==
    [][\A s \in 1..Len(services) :
          (Handled(last', "POST /v1/nuke") /\ last'.svc = s
               /\ services[s].config.allowNuke
               /\ last'.req # Json("POST /v1/nuke", EmptyKey, TxtNuke))
              => /\ last'.status = 400
                 /\ last'.calls = <<>>
                 /\ closures' = closures]_vars

(* C10: a PUT for a valid key whose body is absent or empty, or a bare     *)
(* null, number, string or boolean, is answered 400, upsert is not invoked *)
(* and the store is unchanged.                                             *)
C10_PutRejectsNonContainers ==
    [][(/\ last'.kind = "request"
        /\ last'.req.route = "PUT /v1/key"
        /\ last'.req.key \in Keys
        /\ last'.req.text \in {TxtEmpty, TxtNull, TxtNumber, TxtString, TxtTrue})
          => /\ last'.status = 400
             /\ last'.calls = <<>>
             /\ closures' = closures]_vars

(* C19: a PUT for a key whose Content-Type is not JSON is answered 400,    *)
(* upsert is not invoked and every store is unchanged.                     *)
C19_PutNeedsJsonType ==
    [][(/\ last'.kind = "request"
        /\ last'.req.route = "PUT /v1/key"
        /\ last'.req.key \in Keys
        /\ last'.req.ctype # "application/json")
          => /\ last'.status = 400
             /\ last'.calls = <<>>
             /\ closures' = closures]_vars

(* C19 witness: a PUT of a JSON array sent as text/plain was answered 400  *)
(* while its key holds a value, which it still holds.                      *)
C19_Witness ==
    /\ last.kind = "request"
    /\ last.req = Plain("PUT /v1/key", last.req.key, TxtArr)
    /\ last.req.key \in Keys
    /\ last.status = 400
    /\ Held(last.svc, last.req.key) = JObj(EmptyProps)

(* A JSON array or a JSON object. *)
Container(v) == v.t \in {"array", "object"}

(* C13: every value held in a store is a JSON array or object, and so is   *)
(* every value a GET is answered with and every value in the mapping       *)
(* GET /v1/all is answered with.                                           *)
C13_ValuesAreContainers ==
    /\ \A i \in DOMAIN closures : \A p \in DOMAIN closures[i] : Container(closures[i][p])
    /\ \A s \in 1..Len(services) :
          /\ \A k \in Keys : View(s, k) # undefined => Container(View(s, k))
          /\ \A k \in DOMAIN AllView(s) : Container(AllView(s)[k])
    /\ (Handled(last, "GET /v1/key") /\ last.status = 200) => Container(last.body)
    /\ (Handled(last, "GET /v1/all") /\ last.status = 200)
          => \A k \in DOMAIN last.body.map : Container(last.body.map[k])

(* C13 witness: a store holds an array for one key and an object for the   *)
(* other after PUTs of a null, a number, a string and a boolean were       *)
(* refused.                                                                *)
C13_Witness ==
    /\ last.kind = "request"
    /\ last.req.route = "PUT /v1/key"
    /\ last.req.text \in {TxtNull, TxtNumber, TxtString, TxtTrue}
    /\ last.status = 400
    /\ \E k, j \in Keys : /\ Held(last.svc, k).t = "array"
                          /\ Held(last.svc, j).t = "object"

(* The event is a request for a key route with the empty key. *)
ForEmptyKey(e) ==
    /\ e.kind = "request"
    /\ e.req.route \in {"GET /v1/key", "PUT /v1/key", "DELETE /v1/key"}
    /\ e.req.key = EmptyKey

(* C12 as stated: a request for the empty key is answered 400, invokes no  *)
(* store operation and the store never holds an entry for the empty key.   *)
C12_EmptyKeyRejected ==
    [][ForEmptyKey(last')
          => /\ last'.status = 400
             /\ last'.calls = <<>>
             /\ closures' = closures
             /\ \A i \in DOMAIN closures' : prepKey(EmptyKey) \notin DOMAIN closures'[i]]_vars

(* C12 amended: a request for the empty key matches no route and is       *)
(* answered 404 by the framework, or 400 when the body parser refuses its  *)
(* body; it invokes no store operation, and no store ever holds an entry   *)
(* for the empty key.                                                      *)
C12_EmptyKeyUnrouted ==
    [][/\ ForEmptyKey(last')
          => /\ last'.status = (IF json(last'.req).err THEN 400 ELSE 404)
             /\ last'.calls = <<>>
             /\ closures' = closures
       /\ \A i \in DOMAIN closures' : prepKey(EmptyKey) \notin DOMAIN closures'[i]]_vars

(* C12 witness: a PUT of a JSON object for the empty key was answered 404  *)
(* and the store, which holds something, holds nothing for the empty key.  *)
C12_Witness ==
    /\ ForEmptyKey(last)
    /\ last.req = Json("PUT /v1/key", EmptyKey, TxtObj)
    /\ last.status = 404
    /\ HeldIn(StoreOf(last.svc), EmptyKey) = undefined
    /\ \E k \in Keys : Held(last.svc, k) # undefined

(* The event is a request on the over-length key, through service s. *)
ForLongKey(e, s, route) ==
    e.kind = "request" /\ e.req \in LongRequests /\ e.svc = s /\ e.req.route = route

(* C11 as stated: a request on a key longer than MaxKeyLength is answered  *)
(* with a client error, invokes no store operation, and no store ever      *)
(* holds an entry for such a key.                                          *)
C11_LongKeyRejected ==
    [][/\ (last'.kind = "request" /\ last'.req \in LongRequests)
          => /\ last'.status \in 400..499
             /\ last'.calls = <<>>
       /\ \A i \in DOMAIN closures' :
             \A p \in DOMAIN closures'[i] : Len(slice(p)) <= MaxKeyLength]_vars

(* C11 amended: the handlers do not look at the length of the key.  A PUT  *)
(* on an over-length key invokes upsert with it, is answered 201 and the   *)
(* in-memory store then holds the value under that key; a GET invokes get  *)
(* and is answered 200 with the held value, or 404 when nothing is held; a *)
(* DELETE invokes delete and is answered 200 when the key was held, which  *)
(* it then no longer is, or 404.                                           *)
C11_LongKeyHandled ==
    [][\A s \in 1..Len(services) :
          /\ ForLongKey(last', s, "PUT /v1/key")
                => /\ last'.calls = <<Call("upsert", LongKey, JSONparse(last'.req.text))>>
                   /\ last'.status = 201
                   /\ Held(s, LongKey)' = JSONparse(last'.req.text)
                   /\ \A j \in Keys : Held(s, j)' = Held(s, j)
          /\ ForLongKey(last', s, "GET /v1/key")
                => /\ last'.calls = <<Call("get", LongKey, undefined)>>
                   /\ Held(s, LongKey) = undefined => last'.status = 404
                   /\ Held(s, LongKey) # undefined
                        => (last'.status = 200 /\ last'.body = Held(s, LongKey))
                   /\ closures' = closures
          /\ ForLongKey(last', s, "DELETE /v1/key")
                => /\ last'.calls = <<Call("delete", LongKey, undefined)>>
                   /\ last'.status = (IF Held(s, LongKey) = undefined THEN 404 ELSE 200)
                   /\ Held(s, LongKey)' = undefined
                   /\ \A j \in Keys : Held(s, j)' = Held(s, j)]_vars

(* C11 witness: a GET on the over-length key was answered 200 with the     *)
(* value the store holds under it.                                         *)
C11_Witness ==
    /\ ForLongKey(last, 1, "GET /v1/key")
    /\ last.status = 200
    /\ last.body = Held(1, LongKey)
    /\ Len(last.req.key) > MaxKeyLength

(* The promise the store method returned for r has been rejected: the     *)
(* pool gave no client, or the statement failed and client.query's         *)
(* callback has run.                                                       *)
Rejected(r) == r.result.err /\ ~InFlight(r)

(* C14: a request whose store promise was rejected because its statement  *)
(* failed, whichever of the five operations it called, is answered 500     *)
(* once the promise's callbacks have run: it is not answered 400 or 404    *)
(* and it is not left without a response.                                  *)
C14_RejectionIsServerError ==
    \A r \in BagToSet(reqs) :
        (Rejected(r) /\ r.pc = "done") => r.status = 500

PgAllOf(table) == pgGetAll(SelectAll(table).result)
PgAll == PgAllOf(KVS)

(* Every request served so far is a PUT, on keys that differ from one PUT  *)
(* to the other and fit the key column, and all of them have been answered *)
(* 201.                                                                    *)
OnlyPutsOnDistinctKeys ==
    /\ reqs # EmptyBag
    /\ \A r \in BagToSet(reqs) :
          /\ OpOf(r.req) = "upsert"
          /\ Len(r.req.key) <= MaxKeyLength
          /\ CopiesIn(r, reqs) = 1
          /\ r.pc = "done"
          /\ r.status = 201
          /\ \A q \in BagToSet(reqs) : q.req.key = r.req.key => q = r

(* The in-memory stores of up to two entries. *)
SmallStores ==
    {EmptyObject} \cup {upsert(EmptyObject, k, v).store : k \in Keys, v \in {JObj(EmptyProps)}}
        \cup {upsert(upsert(EmptyObject, <<"a">>, u).store, <<"b">>, v).store :
                  u, v \in {JObj(EmptyProps), JArr(<<JNum(1)>>)}}

(* In the in-memory store, where a PUT is a single step, upserts on        *)
(* distinct keys give the same store in either order, and getAll then      *)
(* returns what it returned before overridden by the two entries.          *)
MemoryUpsertsCommute ==
    \A store \in SmallStores :
        \A u, v \in {JObj(EmptyProps), JArr(<<JNum(1)>>)} :
            LET ab == upsert(upsert(store, <<"a">>, u).store, <<"b">>, v).store
                ba == upsert(upsert(store, <<"b">>, v).store, <<"a">>, u).store
            IN  /\ ab = ba
                /\ getAll(ab).value
                      = [k \in Keys \cup DOMAIN getAll(store).value |->
                            IF k = <<"a">> THEN u ELSE IF k = <<"b">> THEN v
                            ELSE getAll(store).value[k]]

(* C16: once concurrent PUTs on pairwise distinct keys have all been       *)
(* answered 201, getAll returns the mapping the store started with,        *)
(* overridden by each PUT's key mapped to the value sent for it: no key is *)
(* missing, none is extra, none holds the value of another; and so it is   *)
(* in the in-memory store, whatever the order of the PUTs.                 *)
C16_DistinctKeysConverge ==
    /\ OnlyPutsOnDistinctKeys
          => LET sent == {r.req.key : r \in BagToSet(reqs)}
                 before == PgAllOf(last.before)
             IN  /\ DOMAIN PgAll = DOMAIN before \cup sent
                 /\ \A r \in BagToSet(reqs) : PgAll[r.req.key] = JSONparse(r.req.text)
                 /\ \A k \in DOMAIN before \ sent : PgAll[k] = before[k]
    /\ MemoryUpsertsCommute

(* C16 witness: PUTs on two keys that were in flight together have both    *)
(* been answered 201, one having inserted its row and the other updated    *)
(* the row its key had.                                                    *)
C16_Witness ==
    /\ OnlyPutsOnDistinctKeys
    /\ BagCardinality(reqs) = 2
    /\ \A r \in BagToSet(reqs) : r.overlapped
    /\ \E r, q \in BagToSet(reqs) : r.path = "insert" /\ q.path = "update"

(* The requests served so far are two upserts of k that were in flight    *)
(* together.                                                               *)
TwoUpsertsOn(k) ==
    /\ BagCardinality(reqs) = 2
    /\ \A r \in BagToSet(reqs) :
          OpOf(r.req) = "upsert" /\ r.req.key = k /\ r.overlapped

(* How many of the requests served so far wrote through `path`. *)
Wrote(path) ==
    LET S == {r \in BagToSet(reqs) : r.path = path}
    IN  IF S = {} THEN 0 ELSE BagCardinality([r \in S |-> CopiesIn(r, reqs)])

(* C17: of two concurrent upserts of one key, with no other request, at    *)
(* most one writes through its INSERT, at every point of every             *)
(* interleaving; once both are done without a failure of the database,     *)
(* both were answered 201 and the key holds the value of one of them; for  *)
(* a key that had no row exactly one wrote through its INSERT and the      *)
(* other through the UPDATE.                                               *)
C17_SameKeyUpsertsConverge ==
    \A k \in Keys :
        TwoUpsertsOn(k)
            => /\ Wrote("insert") <= 1
               /\ (\A r \in BagToSet(reqs) : r.pc = "done" /\ ~r.result.err)
                    => /\ \A r \in BagToSet(reqs) : r.status = 201
                       /\ k \in DOMAIN PgAll
                       /\ PgAll[k] \in {JSONparse(r.req.text) : r \in BagToSet(reqs)}
                       /\ \A j \in DOMAIN PgAll \ {k} :
                             j \in DOMAIN last.before /\ PgAll[j] = PgAllOf(last.before)[j]
                       /\ Wrote("insert") + Wrote("update") = 2
                       /\ k \notin DOMAIN last.before => Wrote("insert") = 1

(* C17 witness: two concurrent upserts of a key that had no row, with      *)
(* different values, are both done and answered 201: one inserted, the     *)
(* other updated, and the key holds the value of the one that updated.     *)
C17_Witness ==
    \E k \in Keys :
        /\ TwoUpsertsOn(k)
        /\ k \notin DOMAIN last.before
        /\ \E r, q \in BagToSet(reqs) :
              /\ r.path = "insert" /\ q.path = "update"
              /\ r.status = 201 /\ q.status = 201
              /\ r.req.text # q.req.text
              /\ PgAll[k] = JSONparse(q.req.text)

(* client.query's callback runs for r in this step and r2 is r afterwards. *)
Finishes(r, r2) ==
    /\ r.pc = "callback"
    /\ r2.pc = "done"
    /\ r2.req = r.req
    /\ reqs' = Swap(reqs, r, r2)

(* C18: when an upsert of k reports success (its PUT is answered 201) and  *)
(* no delete of k and no nuke was in flight at any time while the upsert   *)
(* was, k has a row at that moment, holding a value.                       *)
C18_UpsertLostOnlyToDelete ==
    [][\A r \in BagToSet(reqs) : \A r2 \in BagToSet(reqs') :
          (/\ Finishes(r, r2)
           /\ OpOf(r.req) = "upsert"
           /\ Len(r.req.key) <= MaxKeyLength
           /\ r2.status = 201
           /\ ~r.raced)
              => /\ r.req.key \in DOMAIN KVS'
                 /\ Container(PgAllOf(KVS')[r.req.key])]_vars

(* C18 witness: an upsert that overlapped no delete and no nuke was        *)
(* answered 201 after a DELETE of its key had been answered 200, and the   *)
(* key has a row again.                                                    *)
C18_Witness ==
    \E u, d \in BagToSet(reqs) :
        /\ OpOf(u.req) = "upsert" /\ u.pc = "done" /\ u.status = 201 /\ ~u.raced
        /\ OpOf(d.req) = "delete" /\ d.pc = "done" /\ d.status = 200
        /\ d.req.key = u.req.key
        /\ u.req.key \in DOMAIN KVS

(* The race the claim allows: an upsert answered 201 whose key has no row, *)
(* a delete of the key having been in flight while it was.                 *)
C18_RaceWitness ==
    \E u \in BagToSet(reqs) :
        /\ OpOf(u.req) = "upsert" /\ u.pc = "done" /\ u.status = 201 /\ u.raced
        /\ u.req.key \notin DOMAIN KVS
        /\ \E d \in BagToSet(reqs) : OpOf(d.req) = "delete" /\ d.status = 200

(* In the in-memory store, upsert(k, v) on the store upsert(k, v) gave     *)
(* gives that store again.                                                 *)
MemoryUpsertIdempotent ==
    \A store \in SmallStores, k \in PgKeys :
        \A v \in {JObj(EmptyProps), JArr(<<JNum(1)>>)} :
            LET once == upsert(store, k, v)
                twice == upsert(once.store, k, v)
            IN  /\ twice.store = once.store
                /\ getAll(twice.store).value = getAll(once.store).value
                /\ get(once.store, k).value = v

(* The database runs a statement of r's in this step. *)
Runs(r) ==
    /\ r.pc \in {"query", "update"}
    /\ \E r2 \in BagToSet(reqs') :
          r2.req = r.req /\ r2.pc # r.pc /\ ~r2.result.err /\ reqs' = Swap(reqs, r, r2)

(* C20: performing upsert(k, v) twice in a row leaves the store as         *)
(* performing it once does.  In the relational store: the upsert function  *)
(* run on the table it produced gives that table again, and a statement of *)
(* an upsert of (k, v) that runs when the row of k already holds v leaves  *)
(* the table as it is.  In the in-memory store: MemoryUpsertIdempotent.    *)
C20_UpsertIdempotent ==
    [][/\ \A k \in PgKeys, v \in {JObj(EmptyProps), JArr(<<JNum(1)>>)} :
             LET once == upsertFunction(KVS, k, upsertParam(v))
                 twice == upsertFunction(once, k, upsertParam(v))
             IN  /\ twice = once
                 /\ PgAllOf(twice) = PgAllOf(once)
                 /\ Len(k) <= MaxKeyLength => PgAllOf(once)[k] = v
       /\ \A r \in BagToSet(reqs) :
             (/\ Runs(r)
              /\ OpOf(r.req) = "upsert"
              /\ r.req.key \in DOMAIN KVS
              /\ KVS[r.req.key] = upsertParam(json(r.req).body))
                 => KVS' = KVS
       /\ MemoryUpsertIdempotent]_vars

(* C20 witness: the same PUT was served twice in a row, the first wrote    *)
(* through the INSERT and the second through the UPDATE, and the table is  *)
(* the one the first left: the row it started with and the row of the PUT. *)
C20_Witness ==
    \E r, q \in BagToSet(reqs) :
        /\ r.req = q.req
        /\ OpOf(r.req) = "upsert"
        /\ r.pc = "done" /\ q.pc = "done"
        /\ ~r.overlapped /\ ~q.overlapped
        /\ r.path = "insert" /\ q.path = "update"
        /\ KVS = upsertFunction(last.before, r.req.key, upsertParam(json(r.req).body))
        /\ KVS # last.before
        /\ last.before # EmptyTable

(* The database runs the INSERT of upsert r in this step and the INSERT    *)
(* raises: r2 is r afterwards, with the UPDATE to come.                    *)
FallsBack(r, r2) ==
    /\ OpOf(r.req) = "upsert"
    /\ r.pc = "query"
    /\ r2.pc = "update"
    /\ r2.req = r.req
    /\ reqs' = Swap(reqs, r, r2)

(* C21: the upsert function goes on to its UPDATE only when the INSERT     *)
(* raised because the key has a row; and an upsert that is answered 201    *)
(* without a delete of its key or a nuke having been in flight leaves the  *)
(* value stored.                                                           *)
C21_FallbackOnlyOnConflict ==
    [][\A r \in BagToSet(reqs) : \A r2 \in BagToSet(reqs') :
          /\ FallsBack(r, r2) => r.req.key \in DOMAIN KVS
          /\ (Finishes(r, r2) /\ OpOf(r.req) = "upsert" /\ r2.status = 201 /\ ~r.raced)
                => r.req.key \in DOMAIN KVS']_vars

(* The database runs a statement of r's in this step without an error and *)
(* with nothing left to run: r2 is r afterwards.                           *)
Completes(r, r2) ==
    /\ r.pc \in {"query", "update"}
    /\ r2.pc = "callback"
    /\ ~r2.result.err
    /\ r2.req = r.req
    /\ reqs' = Swap(reqs, r, r2)

(* {"value": v} *)
Wrapped(v) == JObj([value |-> v])

(* C22: every row of the table holds the text of a value wrapped as        *)
(* {"value": v}, which get and getAll give back as v; the row an upsert of *)
(* (k, v) writes holds the text of {"value": v}, so that get(k) and the    *)
(* entry of k in getAll are v; and a GET answered 200 carries the value    *)
(* unwrapped from the row its statement read.                              *)
C22_EnvelopeRoundTrip ==
    [][/\ \A k \in DOMAIN KVS' :
             LET v == PgAllOf(KVS')[k]
             IN  /\ Container(v)
                 /\ JSONparse(KVS'[k]) = Wrapped(v)
                 /\ KVS'[k] = JSONstringify(Wrapped(v))
                 /\ pgGet(SelectValue(KVS', k).result) = v
       /\ \A r \in BagToSet(reqs) : \A r2 \in BagToSet(reqs') :
             /\ (Completes(r, r2) /\ OpOf(r.req) = "upsert" /\ r.req.key \in DOMAIN KVS')
                   => /\ KVS'[r.req.key] = JSONstringify(Wrapped(JSONparse(r.req.text)))
                      /\ pgGet(SelectValue(KVS', r.req.key).result) = JSONparse(r.req.text)
                      /\ PgAllOf(KVS')[r.req.key] = JSONparse(r.req.text)
             /\ (Completes(r, r2) /\ OpOf(r.req) = "get" /\ r.req.key \in DOMAIN KVS)
                   => r2.result.rows = {[key |-> NoColumn,
                                         value |-> Wrapped(PgAll[r.req.key])]}
             /\ (Finishes(r, r2) /\ OpOf(r.req) = "get" /\ r2.status = 200)
                   => /\ Wrapped(r2.body) \in {row.value : row \in r.result.rows}
                      /\ Container(r2.body)
             /\ (Finishes(r, r2) /\ OpOf(r.req) = "getAll" /\ r2.status = 200)
                   => \A row \in r.result.rows :
                         row.value = Wrapped(r2.body.map[row.key])]_vars

(* C22 witness: a PUT of the array [1] was answered 201, a GET of its key  *)
(* that followed was answered 200 with [1], and the row holds the text     *)
(* {"value":[1]}.                                                          *)
C22_Witness ==
    \E u, g \in BagToSet(reqs) :
        /\ OpOf(u.req) = "upsert" /\ u.pc = "done" /\ u.status = 201 /\ ~u.overlapped
        /\ u.req.text = TxtArr
        /\ OpOf(g.req) = "get" /\ g.pc = "done" /\ g.status = 200
        /\ g.req.key = u.req.key
        /\ g.body = JArr(<<JNum(1)>>)
        /\ KVS[u.req.key] = TxtWrappedArr

(* The places of op in a log of operations. *)
Places(ops, op) == {i \in 1..Len(ops) : ops[i] = op}

(* C23: a request holds a pooled client exactly from pg.connect's callback *)
(* to client.query's callback; once that callback has run, whether the     *)
(* statement succeeded or failed, the client has been given back, done()   *)
(* was called exactly once, and it was called before every reject and      *)
(* resolve.                                                                *)
C23_ReleasedOnceBeforeSettling ==
    \A r \in BagToSet(reqs) :
        /\ r.conn = "held" <=> r.pc \in {"query", "update", "callback"}
        /\ r.conn = "held" => Places(r.acts, "done") = {}
        /\ r.pc = "done"
              => /\ r.conn = "released"
                 /\ Cardinality(Places(r.acts, "done")) = 1
                 /\ Places(r.acts, "resolve") # {}
                 /\ \A i \in Places(r.acts, "done") :
                       \A j \in Places(r.acts, "reject") \cup Places(r.acts, "resolve") :
                          i < j

(* C23 witness: one request's statement failed, another's succeeded, and   *)
(* both callbacks have run and given the client back.                      *)
C23_Witness ==
    \E r, q \in BagToSet(reqs) :
        /\ r.pc = "done" /\ r.result.err /\ r.conn = "released"
        /\ q.pc = "done" /\ ~q.result.err /\ q.conn = "released"

(* The operation that settled the promise: the first reject or resolve of *)
(* the log, "none" while there is none.                                    *)
SettledBy(ops) ==
    LET at == Places(ops, "reject") \cup Places(ops, "resolve")
    IN  IF at = {} THEN "none"
        ELSE ops[CHOOSE i \in at : \A j \in at : i <= j]

(* C25: when pg.connect's callback got an error and no client, the promise *)
(* is rejected and client.query is not called; and a promise is resolved   *)
(* only when a client was handed over and its statement succeeded.         *)
C25_NoStatementWithoutClient ==
    \A r \in BagToSet(reqs) :
        /\ (r.conn = "none" /\ r.acts # <<>>)
              => /\ SettledBy(r.acts) = "reject"
                 /\ Places(r.acts, "client.query") = {}
        /\ SettledBy(r.acts) = "resolve"
              => /\ r.conn = "released"
                 /\ ~r.result.err

(* The requests of the bag that are deletes of k, as a bag. *)
DeletesOf(k) ==
    LET D == {r \in BagToSet(reqs) : OpOf(r.req) = "delete" /\ r.req.key = k}
    IN  [r \in D |-> CopiesIn(r, reqs)]

(* The server started with a row for k, two deletes of k and no upsert of  *)
(* k nor nuke have arrived, and both deletes have been answered after      *)
(* their statement ran.                                                    *)
TwoDeletesOn(k) ==
    /\ k \in DOMAIN last.before
    /\ BagCardinality(DeletesOf(k)) = 2
    /\ \A r \in BagToSet(reqs) :
          /\ OpOf(r.req) # "nuke"
          /\ ~(OpOf(r.req) = "upsert" /\ r.req.key = k)
    /\ \A r \in BagToSet(DeletesOf(k)) : r.pc = "done" /\ ~r.result.err

(* In the in-memory store, where a DELETE is a single step, the first of   *)
(* two deletes of a held key is answered 200 and the second 404.           *)
MemoryDeleteTwice ==
    \A store \in SmallStores, k \in Keys :
        In(prepKey(k), store)
            => LET first == deleteRoute(store, k)
                   second == deleteRoute(first.store, k)
               IN  /\ delete(store, k).value = JNum(1)
                   /\ delete(first.store, k).value = JNum(0)
                   /\ first.status = 200
                   /\ second.status = 404

(* C26: of two deletes of a key that has a row, with no upsert of the key  *)
(* in between, exactly one finds the row (count 1, answered 200) and the   *)
(* other finds none (count 0, answered 404).  In the relational store: a   *)
(* DELETE statement counts 1 exactly when the key has a row and leaves     *)
(* none, a key gets a row only by a statement of an upsert of it, and a    *)
(* delete is answered 200 for count 1 and 404 for count 0; so two deletes  *)
(* that were both answered got one 200 and one 404.  In the in-memory      *)
(* store: MemoryDeleteTwice.                                               *)
C26_OneDeleteWins ==
    [][/\ \A r \in BagToSet(reqs) : \A r2 \in BagToSet(reqs') :
             /\ (Completes(r, r2) /\ OpOf(r.req) = "delete")
                   => /\ r2.result.rowCount = (IF r.req.key \in DOMAIN KVS THEN 1 ELSE 0)
                      /\ r.req.key \notin DOMAIN KVS'
             /\ (Finishes(r, r2) /\ OpOf(r.req) = "delete" /\ ~r.result.err)
                   => r2.status = (IF r.result.rowCount = 1 THEN 200 ELSE 404)
       /\ \A k \in DOMAIN KVS' \ DOMAIN KVS :
             \E r \in BagToSet(reqs) : \E r2 \in BagToSet(reqs') :
                Completes(r, r2) /\ OpOf(r.req) = "upsert" /\ r.req.key = k
       /\ \A k \in Keys :
             TwoDeletesOn(k)'
                => \E r, q \in BagToSet(reqs') :
                      /\ OpOf(r.req) = "delete" /\ r.req.key = k
                      /\ OpOf(q.req) = "delete" /\ q.req.key = k
                      /\ r.result.rowCount = 1 /\ r.status = 200
                      /\ q.result.rowCount = 0 /\ q.status = 404
       /\ MemoryDeleteTwice]_vars

(* C26 witness: two deletes of a key that had a row were in flight         *)
(* together; one was answered 200 and the other 404.                       *)
C26_Witness ==
    \E k \in Keys :
        /\ TwoDeletesOn(k)
        /\ \E r, q \in BagToSet(DeletesOf(k)) :
              /\ r.overlapped /\ q.overlapped
              /\ r.status = 200 /\ q.status = 404

(* C24: in the in-memory store, a key whose PUT was answered 201 is a key  *)
(* of getAll, spelled as given and with the value sent, and get returns    *)
(* that value; a key removed by a delete or a nuke is no key of getAll and *)
(* get returns nothing for it; no other step changes whether it is a key   *)
(* of getAll; getAll has a key exactly when get returns a value for it and *)
(* has no key that was never given.  The keys include __proto__,           *)
(* constructor and key_a.                                                  *)
C24_KeysFaithful ==
    [][/\ \A k \in Keys \cup NamedKeys :
             /\ (Called(last', "upsert") /\ last'.status = 201 /\ last'.req.key = k)
                   => /\ View(1, k)' = last'.calls[1].value
                      /\ k \in DOMAIN AllView(1)'
                      /\ AllView(1)'[k] = last'.calls[1].value
             /\ (Called(last', "nuke") \/ (Called(last', "delete") /\ last'.req.key = k))
                   => /\ View(1, k)' = undefined
                      /\ k \notin DOMAIN AllView(1)'
             /\ ~Ends(last', k)
                   => (k \in DOMAIN AllView(1)' <=> k \in DOMAIN AllView(1))
             /\ k \in DOMAIN AllView(1)' <=> View(1, k)' # undefined
       /\ DOMAIN AllView(1)' \subseteq Keys \cup NamedKeys]_vars

(* C27: a request whose store operation has settled, and whose handler's   *)
(* callbacks on the promise have run, has been sent a response: a status   *)
(* by the handler or 500 by the error path.  Nothing happens to a request  *)
(* after that, so a request without a response then never gets one.        *)
C27_SettledIsAnswered ==
    \A r \in BagToSet(reqs) :
        (r.pc = "done" /\ SettledBy(r.acts) # "none")
            => r.status \in {200, 201, 404, 500}

=============================================================================
